---------------------------- MODULE Spec2Model ----------------------------
(***************************************************************************)
(* Model of DataProcessorTester (src/network.py): the merge / process /    *)
(* read-output / validate / schema pipeline over pandas DataFrames.        *)
(*                                                                         *)
(* A DataFrame is [cols, rows]: a set of column names and a sequence of    *)
(* rows, each row a function from cols to cells.  A cell is a number       *)
(* (n + frac/2, frac \in {0,1}), a text (a sequence of one-character       *)
(* strings) or the missing value NaN.                                      *)
(***************************************************************************)
EXTENDS Integers, Sequences, FiniteSets

VARIABLES
    csv_file, json_file,          \* inputDataSet/players_1990_2000.csv, players_2000_onwards.json
    test_file, odi_file,          \* outputDataSet/test_results.csv, odi_results.csv
    merged_file, processed_file,  \* tempDataSet/merged_data.csv, processed_data.csv
    result_file,                  \* tempDataSet/test_result.csv
    merged_data, processed_data,  \* locals of run_test
    output_data, validation_result,
    schema,                       \* (schema_valid, schema_errors) of run_test
    result,                       \* what run_test returned
    pc,                           \* the statement of run_test that runs next
    calls,                        \* history: the stages that started, in order
    raised                        \* history: the stage that raised, or "none"

vars == <<csv_file, json_file, test_file, odi_file, merged_file, processed_file,
          result_file, merged_data, processed_data, output_data,
          validation_result, schema, result, pc, calls, raised>>

-----------------------------------------------------------------------------
(* Bounds of the model *)

MaxRows == 2
MaxExpectedRows == 2
MaxActualRows == 2
MaxSchemaRows == 2
MaxFileRows == 2

-----------------------------------------------------------------------------
(* Cells *)

Num(n, frac) == [k |-> "num", n |-> n, frac |-> frac, s |-> <<>>]
IntCell(n) == Num(n, 0)
Str(s) == [k |-> "str", n |-> 0, frac |-> 0, s |-> s]
NaN == [k |-> "nan", n |-> 0, frac |-> 0, s |-> <<>>]

\* The characters of the model's texts, in code point order.
Chars == <<"-", "0", "1", "2", "3", "4", "5", "6", "7", "8", "9",
           "A", "B", "F", "I", "L", "P", "R", "S",
           "a", "d", "e", "i", "l", "m", "n", "o", "r", "s", "t", "u", "w", "x">>
DigitChars == <<"0", "1", "2", "3", "4", "5", "6", "7", "8", "9">>
Digits == {DigitChars[i] : i \in 1..Len(DigitChars)}
Rank(c) == CHOOSE i \in 1..Len(Chars) : Chars[i] = c
DigitValue(c) == (CHOOSE i \in 1..Len(DigitChars) : DigitChars[i] = c) - 1

RECURSIVE ParseDigits(_)
ParseDigits(s) ==
    IF s = <<>> THEN 0
    ELSE 10 * ParseDigits(SubSeq(s, 1, Len(s) - 1)) + DigitValue(s[Len(s)])

\* pd.to_numeric(..., errors='coerce') on one cell
ToNumeric(cell) ==
    IF cell.k = "str"
    THEN IF cell.s # <<>> /\ \A i \in 1..Len(cell.s) : cell.s[i] \in Digits
         THEN IntCell(ParseDigits(cell.s))
         ELSE NaN
    ELSE cell

\* comparisons of a cell with an integer; every comparison with NaN is false
CellGe(cell, c) == cell.k = "num" /\ cell.n >= c
CellLe(cell, c) == cell.k = "num" /\ (cell.n < c \/ (cell.n = c /\ cell.frac = 0))
CellGt(cell, c) == cell.k = "num" /\ (cell.n > c \/ (cell.n = c /\ cell.frac = 1))

\* Python's == and != on two cells (NaN is unequal to everything, itself included)
CellEq(a, b) == a.k # "nan" /\ b.k # "nan" /\ a = b
CellNe(a, b) == ~CellEq(a, b)

-----------------------------------------------------------------------------
(* DataFrames *)

EmptyFrame == [cols |-> {}, rows |-> <<>>]
Frame(cols, rows) == [cols |-> cols, rows |-> rows]
Absent == [exists |-> FALSE, df |-> EmptyFrame]
File(df) == [exists |-> TRUE, df |-> df]

Restrict(row, cols) == [c \in cols |-> row[c]]

\* pd.concat([a, b], ignore_index=True): the union of the columns, a's rows
\* then b's, a column a frame lacks filled with NaN
Reindex(row, from, cols) == [c \in cols |-> IF c \in from THEN row[c] ELSE NaN]
Concat(a, b) ==
    LET cols == a.cols \cup b.cols
    IN  Frame(cols,
              [i \in 1..Len(a.rows) |-> Reindex(a.rows[i], a.cols, cols)]
              \o [i \in 1..Len(b.rows) |-> Reindex(b.rows[i], b.cols, cols)])

-----------------------------------------------------------------------------
(* process_data *)

MinAge == 15
MaxAge == 50
RunsThreshold == 500
WicketsThreshold == 50

numeric_cols == {"runs", "wickets", "age"}

AllRounder == Str(<<"A", "l", "l", "-", "R", "o", "u", "n", "d", "e", "r">>)
Batsman == Str(<<"B", "a", "t", "s", "m", "a", "n">>)
Bowler == Str(<<"B", "o", "w", "l", "e", "r">>)

\* mutant: the runs threshold taken inclusively
determine_player_type_RunsInclusive(row) ==
    IF CellGe(row["runs"], RunsThreshold) /\ CellGe(row["wickets"], WicketsThreshold)
    THEN AllRounder
    ELSE IF CellGe(row["runs"], RunsThreshold)
         THEN Batsman
         ELSE Bowler

determine_player_type(row) ==
    IF CellGt(row["runs"], RunsThreshold) /\ CellGe(row["wickets"], WicketsThreshold)
    THEN AllRounder
    ELSE IF CellGt(row["runs"], RunsThreshold)
         THEN Batsman
         ELSE Bowler

\* mutant: no copy is made, the input frame itself is worked on
DataCopy_Alias(heap, ref) == [heap |-> heap, ref |-> ref]

\* data.copy(): a new object on the heap holding the same frame
DataCopy(heap, ref) == [heap |-> Append(heap, heap[ref]), ref |-> Len(heap) + 1]

\* processed_data[col] = pd.to_numeric(processed_data[col], errors='coerce')
\* for each numeric column the frame has
CoerceNumeric(df) ==
    Frame(df.cols,
          [i \in 1..Len(df.rows) |->
              [c \in df.cols |-> IF c \in numeric_cols
                                  THEN ToNumeric(df.rows[i][c])
                                  ELSE df.rows[i][c]]])

\* dropna(subset=['runs', 'wickets'])
HasRunsAndWickets(row) == row["runs"].k # "nan" /\ row["wickets"].k # "nan"
DropNa(df) == Frame(df.cols, SelectSeq(df.rows, HasRunsAndWickets))

\* mutant: the upper age bound taken exclusively
AgeInRange_UpperExclusive(row) ==
    CellGe(row["age"], MinAge) /\ CellLe(row["age"], MaxAge) /\ row["age"] # IntCell(MaxAge)

\* (age >= 15) & (age <= 50)
AgeInRange(row) == CellGe(row["age"], MinAge) /\ CellLe(row["age"], MaxAge)
AgeFilter(df) == Frame(df.cols, SelectSeq(df.rows, AgeInRange))

\* processed_data['playerType'] = processed_data.apply(determine_player_type, axis=1)
AddPlayerType(df) ==
    LET cols == df.cols \cup {"playerType"}
    IN  Frame(cols,
              [i \in 1..Len(df.rows) |->
                  [c \in cols |-> IF c = "playerType"
                                   THEN determine_player_type(df.rows[i])
                                   ELSE df.rows[i][c]]])

\* process_data(data).  input: the caller's frame after the call; out: the
\* frame returned; raised: the exception, or "none".  apply() on a frame
\* without rows yields a Series (the assignment works) or a DataFrame (the
\* assignment raises ValueError) depending on the pandas release:
\* empty_apply_reduces chooses.
process_data(data, empty_apply_reduces) ==
    LET cp == DataCopy(<<data>>, 1)
        heap == [cp.heap EXCEPT ![cp.ref] = CoerceNumeric(@)]
        coerced == heap[cp.ref]
        input == heap[1]
    IN  IF ~({"runs", "wickets"} \subseteq coerced.cols)
        THEN [input |-> input, out |-> EmptyFrame, raised |-> "KeyError"]
        ELSE IF "age" \notin coerced.cols
        THEN [input |-> input, out |-> EmptyFrame, raised |-> "KeyError"]
        ELSE LET filtered == AgeFilter(DropNa(coerced))
             IN  IF filtered.rows = <<>> /\ ~empty_apply_reduces
                 THEN [input |-> input, out |-> EmptyFrame, raised |-> "ValueError"]
                 ELSE [input |-> input, out |-> AddPlayerType(filtered),
                       raised |-> "none"]

-----------------------------------------------------------------------------
(* validate_output *)

expected_cols == <<"playerName", "age", "runs", "wickets", "eventType", "playerType">>
ExpectedColSet == {expected_cols[j] : j \in 1..Len(expected_cols)}

PASS == Str(<<"P", "A", "S", "S">>)
FAIL == Str(<<"F", "A", "I", "L">>)

\* Python's < on two texts: lexicographic, by code point
RECURSIVE TextLess(_, _)
TextLess(a, b) ==
    IF b = <<>> THEN FALSE
    ELSE IF a = <<>> THEN TRUE
    ELSE IF a[1] # b[1] THEN Rank(a[1]) < Rank(b[1])
    ELSE TextLess(Tail(a), Tail(b))

\* the order sort_values('playerName') sorts into: ascending, NaN last
NameLeq(a, b) == b.k = "nan" \/ (a.k # "nan" /\ ~TextLess(b.s, a.s))

\* mutant: the frame is not sorted
SortValues_Unsorted(rows) == rows

\* sort_values('playerName').reset_index(drop=True).  The default kind,
\* quicksort, sorts a run of at most 16 elements by insertion, so on the
\* frames of this model rows with equal names keep their order; the rows
\* with a NaN name are appended in their own order.
InsertSorted(sorted, row) ==
    LET k == Cardinality({i \in 1..Len(sorted) :
                             NameLeq(sorted[i]["playerName"], row["playerName"])})
    IN  SubSeq(sorted, 1, k) \o <<row>> \o SubSeq(sorted, k + 1, Len(sorted))

RECURSIVE SortValues(_)
SortValues(rows) ==
    IF rows = <<>> THEN <<>>
    ELSE InsertSorted(SortValues(SubSeq(rows, 1, Len(rows) - 1)), rows[Len(rows)])

\* df[cols]: a new object holding the projection
SelectColumns(heap, ref, cols) ==
    LET df == heap[ref]
    IN  [heap |-> Append(heap, Frame(cols, [i \in 1..Len(df.rows) |->
                                                Restrict(df.rows[i], cols)])),
         ref |-> Len(heap) + 1]

\* matching_rows = actual_df[actual_df['playerName'] == player_name]
MatchingRows(actual_rows, player_name) ==
    LET Matches(r) == CellEq(r["playerName"], player_name)
    IN  SelectSeq(actual_rows, Matches)

\* for col in expected_cols: if expected_row[col] != actual_row[col]: FAIL, break
\* (actual_row[col] raises KeyError when the actual frame lacks the column)
RECURSIVE CompareFields(_, _, _, _)
CompareFields(expected_row, actual_row, actual_cols, j) ==
    IF j > Len(expected_cols) THEN "PASS"
    ELSE LET col == expected_cols[j]
         IN  IF col \notin actual_cols THEN "KeyError"
             ELSE IF CellNe(expected_row[col], actual_row[col]) THEN "FAIL"
             ELSE CompareFields(expected_row, actual_row, actual_cols, j + 1)

\* the body of the loop for one expected row
RowVerdict(expected_row, actual_df) ==
    LET matching_rows == MatchingRows(actual_df.rows, expected_row["playerName"])
    IN  IF Len(matching_rows) = 0
        THEN "FAIL"
        ELSE CompareFields(expected_row, matching_rows[1], actual_df.cols, 1)

WithResult(row, verdict) ==
    [c \in ExpectedColSet \cup {"Result"} |->
        IF c = "Result" THEN (IF verdict = "PASS" THEN PASS ELSE FAIL) ELSE row[c]]

\* expected_df['Result'] = 'PASS', then the loop over expected_df.iterrows():
\* the heap holds expected_df at ref and actual_df at actual_ref
CompareRows(heap, ref, actual_ref) ==
    LET rows == heap[ref].rows
        verdicts == [i \in 1..Len(rows) |-> RowVerdict(rows[i], heap[actual_ref])]
    IN  [heap |-> [heap EXCEPT ![ref] =
                      Frame(ExpectedColSet \cup {"Result"},
                            [i \in 1..Len(rows) |-> WithResult(rows[i], verdicts[i])])],
         raised |-> IF \E i \in 1..Len(rows) : verdicts[i] = "KeyError"
                    THEN "KeyError" ELSE "none"]

\* df.sort_values('playerName').reset_index(drop=True): a new object
SortedCopy(heap, ref) ==
    [heap |-> Append(heap, Frame(heap[ref].cols, SortValues(heap[ref].rows))),
     ref |-> Len(heap) + 1]

\* validate_output(expected_data, actual_data).  expected: the caller's
\* expected frame after the call, actual likewise; out: the frame returned
\* (and saved); raised: the exception, or "none".  The heap holds
\* expected_data at 1 and actual_data at 2.
validate_output(expected_data, actual_data) ==
    LET heap0 == <<expected_data, actual_data>>
        failed(heap) == [expected |-> heap[1], actual |-> heap[2],
                         out |-> EmptyFrame, raised |-> "KeyError"]
    IN  IF ~(ExpectedColSet \subseteq expected_data.cols)
        THEN failed(heap0)
        ELSE LET sel == SelectColumns(heap0, 1, ExpectedColSet)
                 expected_df == SortedCopy(sel.heap, sel.ref)
                 asel == SelectColumns(expected_df.heap, 2, actual_data.cols)
             IN  IF "playerName" \notin actual_data.cols
                 THEN failed(asel.heap)
                 ELSE LET actual_df == SortedCopy(asel.heap, asel.ref)
                          done == CompareRows(actual_df.heap, expected_df.ref,
                                              actual_df.ref)
                      IN  IF done.raised # "none"
                          THEN failed(done.heap)
                          ELSE [expected |-> done.heap[1], actual |-> done.heap[2],
                                out |-> done.heap[expected_df.ref],
                                raised |-> "none"]

-----------------------------------------------------------------------------
(* validate_schema *)

expected_schema ==
    <<[column |-> "eventType", type |-> "str"],
      [column |-> "playerName", type |-> "str"],
      [column |-> "age", type |-> "int"],
      [column |-> "runs", type |-> "int"],
      [column |-> "wickets", type |-> "int"],
      [column |-> "playerType", type |-> "str"]>>

ColumnOf(df, c) == [i \in 1..Len(df.rows) |-> df.rows[i][c]]

\* pd.api.types.is_integer_dtype: an int64 column, which holds integers only
\* (a column without rows has dtype object)
IsIntegerDtype(col) ==
    Len(col) > 0 /\ \A i \in 1..Len(col) : col[i].k = "num" /\ col[i].frac = 0

\* whether pd.to_numeric(col, downcast='integer') raises: it does on a text
\* that is no number, and on nothing else (a value that cannot be downcast
\* is left as it is)
ToNumericRaises(col) ==
    \E i \in 1..Len(col) : col[i].k = "str" /\ ToNumeric(col[i]).k = "nan"

\* pd.api.types.is_string_dtype: false on a numeric column; true on an
\* object column of texts; on an object column that also holds a value that
\* is no text, the answer depends on the pandas release (all_strings_check)
IsStringDtype(col, all_strings_check) ==
    IF Len(col) = 0 THEN TRUE
    ELSE IF \A i \in 1..Len(col) : col[i].k # "str" THEN FALSE
    ELSE IF \A i \in 1..Len(col) : col[i].k = "str" THEN TRUE
    ELSE ~all_strings_check

MissingMessage(column) == <<"Column '", column, "' is missing">>
TypeMessage(column, type) == <<"Column '", column, "' should be ", type, " type">>

\* one pass of the loop over expected_schema.items()
SchemaStep(st, data, entry, all_strings_check) ==
    LET column == entry.column
        flag(msg) == [valid |-> FALSE, errors |-> Append(st.errors, msg)]
    IN  IF column \notin data.cols
        THEN flag(MissingMessage(column))
        ELSE IF entry.type = "int"
        THEN IF ~IsIntegerDtype(ColumnOf(data, column))
                /\ ToNumericRaises(ColumnOf(data, column))
             THEN flag(TypeMessage(column, "integer"))
             ELSE st
        ELSE IF ~IsStringDtype(ColumnOf(data, column), all_strings_check)
             THEN flag(TypeMessage(column, "string"))
             ELSE st

RECURSIVE SchemaLoop(_, _, _, _)
SchemaLoop(st, data, j, all_strings_check) ==
    IF j > Len(expected_schema) THEN st
    ELSE SchemaLoop(SchemaStep(st, data, expected_schema[j], all_strings_check),
                    data, j + 1, all_strings_check)

\* validate_schema(data): (schema_valid, schema_errors)
validate_schema(data, all_strings_check) ==
    SchemaLoop([valid |-> TRUE, errors |-> <<>>], data, 1, all_strings_check)

-----------------------------------------------------------------------------
(* read_output_data, merge_data *)

\* pd.read_csv(file) if os.path.exists(file) else pd.DataFrame()
ReadIfExists(file) == IF file.exists THEN file.df ELSE EmptyFrame

\* mutant: the two files are concatenated in the other order
read_output_data_OdiFirst(test, odi) == Concat(ReadIfExists(odi), ReadIfExists(test))

read_output_data(test, odi) == Concat(ReadIfExists(test), ReadIfExists(odi))

\* merge_data(): read_csv and open() raise when the file is absent
merge_data(csv, json) ==
    IF ~csv.exists \/ ~json.exists
    THEN [out |-> EmptyFrame, raised |-> "FileNotFoundError"]
    ELSE [out |-> Concat(csv.df, json.df), raised |-> "none"]

-----------------------------------------------------------------------------
(* run_test: one action per stage *)

StageOrder == <<"merge", "process", "read", "validate", "schema">>

NoResult == [returned |-> FALSE, validation_result |-> EmptyFrame,
             schema_valid |-> TRUE, schema_errors |-> <<>>]
NoSchema == [valid |-> TRUE, errors |-> <<>>]

\* mutant: an exception of a stage is swallowed and the run goes on
NextPc_Swallow(stage, exc) ==
    CASE stage = "merge" -> "process"
      [] stage = "process" -> "read"
      [] stage = "read" -> "validate"
      [] stage = "validate" -> "schema"
      [] stage = "schema" -> "return"

\* where run_test goes after a stage: an exception is not caught, so it ends
\* the run; otherwise the next statement
NextPc(stage, exc) ==
    IF exc # "none" THEN "failed"
    ELSE CASE stage = "merge" -> "process"
           [] stage = "process" -> "read"
           [] stage = "read" -> "validate"
           [] stage = "validate" -> "schema"
           [] stage = "schema" -> "return"

Enter(stage, exc) ==
    /\ pc = stage
    /\ calls' = Append(calls, stage)
    /\ pc' = NextPc(stage, exc)
    /\ raised' = IF exc # "none" THEN stage ELSE raised

\* merged_data = self.merge_data()
MergeData ==
    LET r == merge_data(csv_file, json_file)
    IN  /\ Enter("merge", r.raised)
        /\ IF r.raised = "none"
           THEN merged_data' = r.out /\ merged_file' = File(r.out)
           ELSE UNCHANGED <<merged_data, merged_file>>
        /\ UNCHANGED <<csv_file, json_file, test_file, odi_file, processed_file,
                       result_file, processed_data, output_data,
                       validation_result, schema, result>>

\* processed_data = self.process_data(merged_data)
ProcessData ==
    \E empty_apply_reduces \in BOOLEAN :
        LET r == process_data(merged_data, empty_apply_reduces)
        IN  /\ Enter("process", r.raised)
            /\ merged_data' = r.input
            /\ IF r.raised = "none"
               THEN processed_data' = r.out /\ processed_file' = File(r.out)
               ELSE UNCHANGED <<processed_data, processed_file>>
            /\ UNCHANGED <<csv_file, json_file, test_file, odi_file, merged_file,
                           result_file, output_data, validation_result, schema,
                           result>>

\* output_data = self.read_output_data()
ReadOutputData ==
    /\ Enter("read", "none")
    /\ output_data' = read_output_data(test_file, odi_file)
    /\ UNCHANGED <<csv_file, json_file, test_file, odi_file, merged_file,
                   processed_file, result_file, merged_data, processed_data,
                   validation_result, schema, result>>

\* validation_result = self.validate_output(processed_data, output_data)
ValidateOutput ==
    LET r == validate_output(processed_data, output_data)
    IN  /\ Enter("validate", r.raised)
        /\ processed_data' = r.expected
        /\ output_data' = r.actual
        /\ IF r.raised = "none"
           THEN validation_result' = r.out /\ result_file' = File(r.out)
           ELSE UNCHANGED <<validation_result, result_file>>
        /\ UNCHANGED <<csv_file, json_file, test_file, odi_file, merged_file,
                       processed_file, merged_data, schema, result>>

\* schema_valid, schema_errors = self.validate_schema(output_data)
ValidateSchema ==
    \E all_strings_check \in BOOLEAN :
        /\ Enter("schema", "none")
        /\ schema' = validate_schema(output_data, all_strings_check)
        /\ UNCHANGED <<csv_file, json_file, test_file, odi_file, merged_file,
                       processed_file, result_file, merged_data, processed_data,
                       output_data, validation_result, result>>

\* return {'validation_result': ..., 'schema_valid': ..., 'schema_errors': ...}
Return ==
    /\ pc = "return"
    /\ pc' = "done"
    /\ result' = [returned |-> TRUE, validation_result |-> validation_result,
                  schema_valid |-> schema.valid, schema_errors |-> schema.errors]
    /\ UNCHANGED <<csv_file, json_file, test_file, odi_file, merged_file,
                   processed_file, result_file, merged_data, processed_data,
                   output_data, validation_result, schema, calls, raised>>

-----------------------------------------------------------------------------
(* Inputs *)

SeqsUpTo(S, n) == UNION {[1..m -> S] : m \in 0..n}

RawCols == {"playerName", "age", "runs", "wickets", "eventType"}

Row(name, age, runs, wickets, eventType, playerType) ==
    [playerName |-> name, age |-> age, runs |-> runs, wickets |-> wickets,
     eventType |-> eventType, playerType |-> playerType]

NameA == Str(<<"A">>)
NameB == Str(<<"B">>)
Test == Str(<<"t", "e", "s", "t">>)
Odi == Str(<<"o", "d", "i">>)

\* the values around each threshold of process_data, a missing value, a text
\* that is a number and one that is not
AgeCells == {IntCell(14), IntCell(15), IntCell(50), Num(50, 1), IntCell(51), NaN,
             Str(<<"x">>), Str(<<"3", "0">>)}
RunsCells == {IntCell(500), Num(500, 1), IntCell(501), NaN, Str(<<"6", "0", "0">>)}
WicketsCells == {IntCell(49), Num(49, 1), IntCell(50), NaN, Str(<<"x">>)}

\* rows as the merged frame may hold them; the playerType of an input row is
\* a value process_data would not assign
ProcessRows ==
    {Row(NameA, a, IntCell(600), IntCell(60), Test, Bowler) : a \in AgeCells}
    \cup {Row(NameA, IntCell(30), r, w, Odi, AllRounder) :
              r \in RunsCells, w \in WicketsCells}

ProcessColSets == {RawCols, ExpectedColSet, RawCols \ {"age"}, RawCols \ {"runs"}}

FramesOver(colsets, rows, n) ==
    {Frame(cols, [i \in 1..Len(rs) |-> Restrict(rs[i], cols)]) :
        cols \in colsets, rs \in SeqsUpTo(rows, n)}

ProcessInputs == FramesOver(ProcessColSets, ProcessRows, MaxRows)

\* rows of the merged frame for the validator's expected side: both names
\* and a missing one, an event type and a missing one, two player types
ValidateRawRows ==
    {Row(n, IntCell(30), IntCell(600), IntCell(60), e, NaN) :
        n \in {NameA, NameB, NaN}, e \in {Test, NaN}}
    \cup {Row(NameA, IntCell(30), IntCell(400), IntCell(60), Test, NaN)}

ValidateRawInputs ==
    FramesOver({RawCols}, ValidateRawRows, MaxExpectedRows)
    \cup FramesOver({RawCols \ {"eventType"}}, ValidateRawRows, 1)

\* rows of the output files: the rows the expected side can hold, and rows
\* that differ from one of them in a single field
ActualRows ==
    {Row(NameA, IntCell(30), IntCell(600), IntCell(60), Test, AllRounder),
     Row(NameA, IntCell(30), IntCell(600), IntCell(40), Test, AllRounder),
     Row(NameA, IntCell(30), IntCell(600), IntCell(60), NaN, AllRounder),
     Row(NameA, IntCell(30), IntCell(600), IntCell(60), Test, Batsman),
     Row(NameB, IntCell(30), IntCell(600), IntCell(60), Test, AllRounder),
     Row(NaN, IntCell(30), IntCell(600), IntCell(60), Test, AllRounder)}

ActualInputs ==
    FramesOver({ExpectedColSet}, ActualRows, MaxActualRows)
    \cup FramesOver({ExpectedColSet \ {"playerType"}, ExpectedColSet \ {"playerName"}},
                    ActualRows, 1)

\* an output file as read_csv reads it: a file with no header cannot be read
OutputFiles(frames) == {Absent} \cup {File(f) : f \in frames \ {EmptyFrame}}

\* rows of an output file for the schema check: a conforming row, and rows
\* with one cell of another kind
SchemaRows ==
    {Row(NameA, a, IntCell(600), IntCell(60), Test, AllRounder) :
        a \in {IntCell(30), Num(30, 1), NaN, Str(<<"x">>), Str(<<"3", "0">>)}}
    \cup {Row(NameA, IntCell(30), Str(<<"x">>), IntCell(60), Test, AllRounder),
          Row(NaN, IntCell(30), IntCell(600), IntCell(60), Test, AllRounder),
          Row(IntCell(7), IntCell(30), IntCell(600), IntCell(60), Test, AllRounder),
          Row(NameA, IntCell(30), IntCell(600), IntCell(60), NaN, AllRounder),
          Row(NameA, IntCell(30), IntCell(600), IntCell(60), Test, IntCell(1))}

SchemaInputs ==
    FramesOver(SUBSET ExpectedColSet \ {{}}, SchemaRows, MaxSchemaRows)

\* rows and frames of the two output files for read_output_data
ReadRows ==
    {Row(NameA, IntCell(30), IntCell(600), IntCell(60), Test, AllRounder),
     Row(NameB, IntCell(30), IntCell(400), IntCell(60), Odi, Bowler),
     Row(NameB, IntCell(30), IntCell(600), IntCell(40), Test, Batsman)}

ReadInputs ==
    FramesOver({ExpectedColSet, ExpectedColSet \ {"playerType"}}, ReadRows, MaxFileRows)

\* the files of a whole run
PipelineRows ==
    {Row(NameA, Str(<<"3", "0">>), IntCell(600), IntCell(60), Test, NaN),
     Row(NameB, IntCell(52), IntCell(700), IntCell(10), Odi, NaN),
     Row(NameB, IntCell(30), IntCell(400), IntCell(999), Odi, NaN)}

PipelineOutputRows ==
    {Row(NameA, IntCell(30), IntCell(600), IntCell(60), Test, AllRounder),
     Row(NameA, IntCell(30), IntCell(600), IntCell(40), Test, AllRounder),
     Row(NameB, IntCell(30), IntCell(400), IntCell(999), Odi, Bowler)}

CsvFiles ==
    {Absent} \cup {File(f) : f \in FramesOver({RawCols, RawCols \ {"age"}},
                                               PipelineRows, MaxFileRows)}
JsonFiles ==
    {Absent, File(EmptyFrame)} \cup {File(f) : f \in FramesOver({RawCols}, PipelineRows, 1)}
TestFiles ==
    OutputFiles(FramesOver({ExpectedColSet, ExpectedColSet \ {"playerType"}},
                           PipelineOutputRows, 1))
OdiFiles ==
    OutputFiles(FramesOver({ExpectedColSet}, PipelineOutputRows, 1))

-----------------------------------------------------------------------------
(* Specifications *)

\* the part of a state that a call from outside run_test leaves at its defaults
Fresh ==
    /\ raised = "none"
    /\ result = NoResult
    /\ schema = NoSchema
    /\ result_file = Absent
    /\ validation_result = EmptyFrame

\* process_data(merged_data) is about to run on a frame merge_data returned
InitProcess ==
    /\ Fresh
    /\ merged_data \in ProcessInputs
    /\ csv_file = File(merged_data)
    /\ json_file = File(EmptyFrame)
    /\ merged_file = File(merged_data)
    /\ test_file = Absent
    /\ odi_file = Absent
    /\ processed_file = Absent
    /\ processed_data = EmptyFrame
    /\ output_data = EmptyFrame
    /\ pc = "process"
    /\ calls = <<"merge">>

NextProcess == ProcessData

SpecProcess == InitProcess /\ [][NextProcess]_vars

\* validate_output(processed_data, output_data) is about to run on what
\* process_data and read_output_data returned
InitValidate ==
    /\ Fresh
    /\ merged_data \in ValidateRawInputs
    /\ csv_file = File(merged_data)
    /\ json_file = File(EmptyFrame)
    /\ merged_file = File(merged_data)
    /\ \E empty_apply_reduces \in BOOLEAN :
           LET r == process_data(merged_data, empty_apply_reduces)
           IN  /\ r.raised = "none"
               /\ processed_data = r.out
               /\ processed_file = File(r.out)
    /\ test_file \in OutputFiles(ActualInputs)
    /\ odi_file = Absent
    /\ output_data = read_output_data(test_file, odi_file)
    /\ pc = "validate"
    /\ calls = <<"merge", "process", "read">>

NextValidate == ValidateOutput

SpecValidate == InitValidate /\ [][NextValidate]_vars

\* read_output_data() is about to run, called on its own
InitRead ==
    /\ Fresh
    /\ csv_file = Absent
    /\ json_file = Absent
    /\ merged_file = Absent
    /\ processed_file = Absent
    /\ merged_data = EmptyFrame
    /\ processed_data = EmptyFrame
    /\ test_file \in OutputFiles(ReadInputs)
    /\ odi_file \in OutputFiles(ReadInputs)
    /\ output_data = EmptyFrame
    /\ pc = "read"
    /\ calls = <<>>

NextRead == ReadOutputData

SpecRead == InitRead /\ [][NextRead]_vars

\* validate_schema(output_data) is about to run on what read_output_data
\* returned
InitSchema ==
    /\ Fresh
    /\ csv_file = Absent
    /\ json_file = Absent
    /\ merged_file = Absent
    /\ processed_file = Absent
    /\ merged_data = EmptyFrame
    /\ processed_data = EmptyFrame
    /\ test_file \in OutputFiles(SchemaInputs)
    /\ odi_file = Absent
    /\ output_data = read_output_data(test_file, odi_file)
    /\ pc = "schema"
    /\ calls = <<"read">>

NextSchema == ValidateSchema

SpecSchema == InitSchema /\ [][NextSchema]_vars

\* run_test() from its first statement
Init ==
    /\ Fresh
    /\ csv_file \in CsvFiles
    /\ json_file \in JsonFiles
    /\ test_file \in TestFiles
    /\ odi_file \in OdiFiles
    /\ merged_file = Absent
    /\ processed_file = Absent
    /\ merged_data = EmptyFrame
    /\ processed_data = EmptyFrame
    /\ output_data = EmptyFrame
    /\ pc = "merge"
    /\ calls = <<>>

Next ==
    \/ MergeData
    \/ ProcessData
    \/ ReadOutputData
    \/ ValidateOutput
    \/ ValidateSchema
    \/ Return

Spec == Init /\ [][Next]_vars

-----------------------------------------------------------------------------
(* Claims about process_data *)

\* a cell's value in halves, once coerced to a number
IsNumeric(cell) == ToNumeric(cell).k = "num"
Halves(cell) == 2 * ToNumeric(cell).n + ToNumeric(cell).frac

ProcessReturned == pc = "read" /\ calls = <<"merge", "process">>

\* the input records the transformer is to keep
Survives(row) ==
    /\ IsNumeric(row["runs"]) /\ IsNumeric(row["wickets"]) /\ IsNumeric(row["age"])
    /\ 2 * MinAge <= Halves(row["age"]) /\ Halves(row["age"]) <= 2 * MaxAge

SameRecord(in, out, cols) ==
    \A c \in cols \ {"playerType"} :
        IF c \in numeric_cols
        THEN out[c].k = "num" /\ Halves(out[c]) = Halves(in[c])
        ELSE out[c] = in[c]

\* C1: every record process_data returns has 15 <= age <= 50 and has runs
\* and wickets; the records returned are exactly the input records with
\* numeric runs, wickets and an age in [15, 50], in the input's order.
C1_SurvivorsInRange ==
    ProcessReturned =>
        LET kept == SelectSeq(merged_data.rows, Survives)
            out == processed_data.rows
        IN  /\ \A i \in 1..Len(out) :
                   /\ out[i]["age"].k = "num"
                   /\ 2 * MinAge <= Halves(out[i]["age"])
                   /\ Halves(out[i]["age"]) <= 2 * MaxAge
                   /\ out[i]["runs"].k = "num"
                   /\ out[i]["wickets"].k = "num"
            /\ Len(out) = Len(kept)
            /\ \A i \in 1..Len(out) : SameRecord(kept[i], out[i], merged_data.cols)

\* a record at each bound of the age range is kept and another is dropped
C1_Witness ==
    /\ ProcessReturned
    /\ Len(processed_data.rows) < Len(merged_data.rows)
    /\ \E i \in 1..Len(processed_data.rows) :
           Halves(processed_data.rows[i]["age"]) \in {2 * MinAge, 2 * MaxAge}

\* C2: the playerType of every record returned is All-Rounder when
\* runs > 500 and wickets >= 50, Batsman when runs > 500 and wickets < 50,
\* Bowler when runs <= 500, whatever playerType the input carried.
C2_PlayerType ==
    ProcessReturned =>
        \A i \in 1..Len(processed_data.rows) :
            LET row == processed_data.rows[i]
                runs == Halves(row["runs"])
                wickets == Halves(row["wickets"])
                type == row["playerType"]
            IN  /\ type \in {AllRounder, Batsman, Bowler}
                /\ (runs > 2 * RunsThreshold /\ wickets >= 2 * WicketsThreshold)
                       => type = AllRounder
                /\ (runs > 2 * RunsThreshold /\ wickets < 2 * WicketsThreshold)
                       => type = Batsman
                /\ runs <= 2 * RunsThreshold => type = Bowler

\* a returned record whose input carried another playerType
C2_Witness ==
    /\ ProcessReturned
    /\ "playerType" \in merged_data.cols
    /\ Len(processed_data.rows) = Len(merged_data.rows)
    /\ \E i \in 1..Len(processed_data.rows) :
           /\ processed_data.rows[i]["playerType"] = Batsman
           /\ merged_data.rows[i]["playerType"] = AllRounder

-----------------------------------------------------------------------------
(* Claims about validate_output *)

ValidateCalled == calls = <<"merge", "process", "read", "validate">>
ValidateReturned == ValidateCalled /\ pc = "schema"

\* the actual records with the playerName of an expected record, in the
\* order of the actual dataset
SameName(row, name) == row["playerName"] = name
ActualNamed(name) ==
    LET Named(r) == SameName(r, name)
    IN  SelectSeq(output_data.rows, Named)

EqualOnProjection(expected_row, actual_row) ==
    \A c \in ExpectedColSet : expected_row[c] = actual_row[c]

\* C3: an expected record with some actual record of its playerName has the
\* verdict PASS if and only if the first such record, in the actual
\* dataset's order, equals it on the six projected fields.
C3_FirstMatchDecides ==
    (ValidateReturned /\ ExpectedColSet \subseteq output_data.cols) =>
        \A i \in 1..Len(validation_result.rows) :
            LET row == validation_result.rows[i]
                named == ActualNamed(row["playerName"])
            IN  (row["playerName"].k = "str" /\ Len(named) > 0) =>
                    (row["Result"] = PASS <=> EqualOnProjection(row, named[1]))

\* C4: on an expected dataset of process_data (with the six projected
\* columns) and any dataset read_output_data returns, validate_output does
\* not raise, and every expected record with no actual record of its
\* playerName has the verdict FAIL.
C4_ReportsInsteadOfRaising ==
    (ValidateCalled /\ ExpectedColSet \subseteq processed_data.cols) =>
        /\ raised = "none"
        /\ Len(validation_result.rows) = Len(processed_data.rows)
        /\ \A i \in 1..Len(validation_result.rows) :
               LET row == validation_result.rows[i]
               IN  Len(ActualNamed(row["playerName"])) = 0 => row["Result"] = FAIL

\* how often a row occurs in a sequence of rows
Count(rows, row) == Cardinality({i \in 1..Len(rows) : rows[i] = row})

\* C6: the Validation Result has one row per expected record, each carrying
\* the record's six fields and a Result that is PASS or FAIL, in ascending
\* playerName order (the records without a playerName last).
C6_OneRowPerExpected ==
    ValidateReturned =>
        LET out == validation_result.rows
            fields == [i \in 1..Len(out) |-> Restrict(out[i], ExpectedColSet)]
            expected == [i \in 1..Len(processed_data.rows) |->
                            Restrict(processed_data.rows[i], ExpectedColSet)]
        IN  /\ validation_result.cols = ExpectedColSet \cup {"Result"}
            /\ Len(out) = Len(expected)
            /\ \A i \in 1..Len(expected) :
                   Count(fields, expected[i]) = Count(expected, expected[i])
            /\ \A i \in 1..Len(out) : out[i]["Result"] \in {PASS, FAIL}
            /\ \A i, j \in 1..Len(out) : i < j =>
                   LET a == out[i]["playerName"]
                       b == out[j]["playerName"]
                   IN  /\ a.k = "nan" => b.k = "nan"
                       /\ (a.k = "str" /\ b.k = "str") => ~TextLess(b.s, a.s)

\* two expected records given in descending name order come out ascending,
\* one with each verdict
C6_Witness ==
    /\ ValidateReturned
    /\ Len(processed_data.rows) = 2
    /\ processed_data.rows[1]["playerName"] = NameB
    /\ processed_data.rows[2]["playerName"] = NameA
    /\ validation_result.rows[1]["playerName"] = NameA
    /\ validation_result.rows[1]["Result"] = PASS
    /\ validation_result.rows[2]["Result"] = FAIL

-----------------------------------------------------------------------------
(* Claims about the frames a stage is given *)

\* C10: process_data leaves the frame it is given as it was, validate_output
\* leaves both of its frames as they were, and the frame validate_schema
\* gets in run_test is the one read_output_data returned.
C10_InputsUnchanged ==
    [][/\ pc = "process" => merged_data' = merged_data
       /\ pc = "validate" => (processed_data' = processed_data
                                /\ output_data' = output_data)
       /\ pc' = "schema" => output_data' = read_output_data(test_file, odi_file)]_vars

\* process_data returned a frame whose age it coerced from a text, and
\* validate_output returned a frame with a Result column
C10_Witness ==
    /\ pc = "schema"
    /\ \E i \in 1..Len(merged_data.rows) : merged_data.rows[i]["age"].k = "str"
    /\ \E i \in 1..Len(processed_data.rows) : processed_data.rows[i]["age"].k = "num"
    /\ "Result" \in validation_result.cols
    /\ Len(validation_result.rows) > 0
    /\ Len(output_data.rows) > 1

-----------------------------------------------------------------------------
(* Claims about read_output_data *)

ReadReturned == calls = <<"read">> /\ pc = "validate"

AgreesOn(row, source, cols) == \A c \in cols : row[c] = source[c]

\* C8: read_output_data returns the rows of test_results.csv, if the file
\* is there, followed by the rows of odi_results.csv, if that file is there,
\* and does not raise when a file is absent.
C8_TolerantRead ==
    calls = <<"read">> =>
        LET test == IF test_file.exists THEN test_file.df ELSE EmptyFrame
            odi == IF odi_file.exists THEN odi_file.df ELSE EmptyFrame
            out == output_data.rows
            n == Len(test.rows)
        IN  /\ raised = "none"
            /\ pc = "validate"
            /\ Len(out) = n + Len(odi.rows)
            /\ \A i \in 1..n : AgreesOn(out[i], test.rows[i], test.cols)
            /\ \A i \in 1..Len(odi.rows) : AgreesOn(out[n + i], odi.rows[i], odi.cols)

\* odi_results.csv is absent and the rows of test_results.csv are returned
C8_Witness ==
    /\ ReadReturned
    /\ ~odi_file.exists
    /\ test_file.exists
    /\ Len(test_file.df.rows) = 2
    /\ output_data = test_file.df

-----------------------------------------------------------------------------
(* Claims about validate_schema *)

SchemaReturned == calls = <<"read", "schema">> /\ pc = "return"

\* an integer column conforms when its values are integers or convert to
\* integers (not a non-integer number, a missing value or a text that is no
\* number); a string column when its values are strings
IntegerValued(col) ==
    \A i \in 1..Len(col) : ToNumeric(col[i]).k = "num" /\ ToNumeric(col[i]).frac = 0
StringValued(col) == \A i \in 1..Len(col) : col[i].k = "str"

WrongType(data, entry) ==
    /\ entry.column \in data.cols
    /\ IF entry.type = "int"
       THEN ~IntegerValued(ColumnOf(data, entry.column))
       ELSE ~StringValued(ColumnOf(data, entry.column))

ExpectedMessage(data, entry) ==
    IF entry.column \notin data.cols
    THEN <<MissingMessage(entry.column)>>
    ELSE IF WrongType(data, entry)
    THEN <<TypeMessage(entry.column, IF entry.type = "int" THEN "integer" ELSE "string")>>
    ELSE <<>>

RECURSIVE ExpectedMessages(_, _)
ExpectedMessages(data, j) ==
    IF j > Len(expected_schema) THEN <<>>
    ELSE ExpectedMessage(data, expected_schema[j]) \o ExpectedMessages(data, j + 1)

\* C5: validate_schema returns without raising; schema_errors holds one
\* message for each expected column that is missing or of the wrong type and
\* none for a conforming column, in the order of the expected columns; and
\* schema_valid is false exactly when schema_errors is not empty.
C5_OneMessagePerViolation ==
    calls = <<"read", "schema">> =>
        /\ raised = "none"
        /\ pc = "return"
        /\ schema.errors = ExpectedMessages(output_data, 1)
        /\ schema.valid = (schema.errors = <<>>)

InErrors(msg) == \E i \in 1..Len(schema.errors) : schema.errors[i] = msg

\* C9: an integer column that holds a value that is no integer (a
\* non-integer number, a missing value, a text that is no number) is
\* reported "should be integer type"; a string column that holds a value
\* that is no string is reported "should be string type".
C9_WrongTypeReported ==
    SchemaReturned =>
        \A j \in 1..Len(expected_schema) :
            LET entry == expected_schema[j]
            IN  WrongType(output_data, entry) =>
                    InErrors(TypeMessage(entry.column,
                                         IF entry.type = "int" THEN "integer"
                                         ELSE "string"))

-----------------------------------------------------------------------------
(* Claims about run_test *)

IsPrefix(s, u) == Len(s) <= Len(u) /\ s = SubSeq(u, 1, Len(s))

Started(stage) == \E i \in 1..Len(calls) : calls[i] = stage

\* C7: run_test runs the stages in the order merge, process, read, validate,
\* schema, each after the one before it returned and saved its snapshot; once
\* a stage raises no later stage runs, no later snapshot is written and
\* nothing is returned; a run in which no stage raises returns the
\* validator's result and the schema check of the frame read_output_data
\* returned.
C7_StagesInOrder ==
    /\ IsPrefix(calls, StageOrder)
    /\ Started("process") => (merged_file.exists /\ merged_file.df = merged_data)
    /\ Started("read") => (processed_file.exists /\ processed_file.df = processed_data)
    /\ Started("schema") => (result_file.exists /\ result_file.df = validation_result)
    /\ processed_file.exists => merged_file.exists
    /\ result_file.exists => processed_file.exists
    /\ (pc = "failed") <=> (raised # "none")
    /\ raised # "none" =>
           /\ calls[Len(calls)] = raised
           /\ raised = "merge" => ~merged_file.exists
           /\ raised \in {"merge", "process"} => ~processed_file.exists
           /\ raised \in {"merge", "process", "validate"} => ~result_file.exists
    /\ pc # "done" => result = NoResult
    /\ pc = "done" =>
           /\ calls = StageOrder
           /\ result.returned
           /\ result.validation_result = validation_result
           /\ validation_result = validate_output(processed_data, output_data).out
           /\ output_data = read_output_data(test_file, odi_file)
           /\ \E all_strings_check \in BOOLEAN :
                  LET s == validate_schema(output_data, all_strings_check)
                  IN  /\ result.schema_valid = s.valid
                      /\ result.schema_errors = s.errors

\* a run that returned a result with a FAIL verdict and a schema error
C7_Witness ==
    /\ pc = "done"
    /\ result.returned
    /\ \E i \in 1..Len(result.validation_result.rows) :
           result.validation_result.rows[i]["Result"] = FAIL
    /\ ~result.schema_valid
    /\ Len(result.schema_errors) = 1

=============================================================================
